---------------------------- MODULE Spec2Model ----------------------------
(***************************************************************************)
(* The two HR 8799 notebooks (src/rebound_HR8799.ipynb, "A", and           *)
(* src/unnamed/part_000, "B") as a Jupyter session: a kernel namespace     *)
(* (sim, op, the mass_* and loop names), the REBOUND simulation objects    *)
(* the names refer to, the checkpoint file start.bin, and the code cells   *)
(* as the operations.                                                      *)
(*                                                                         *)
(* Fixed point: times in 1/1000 yr, masses in 1/100000 Msun, G in          *)
(* 1/1000000, semi-major axes in 1/100 au, eccentricities in 1/10000,      *)
(* angles given in degrees in 1/10 deg, mean anomalies in 1/1000 rad.      *)
(* Init is the kernel after the import cell has run.                       *)
(***************************************************************************)
EXTENDS Integers, Sequences, FiniteSets, TLC

\* Number of times the user may select a cell other than the next one.
MaxJumps == 1

\* sim.G = 39.476926408897626, in 1/1000000.
GAstro == 39476926
\* G of a fresh rebound.Simulation() (REBOUND's default, 1.0).
GDefault == 1000000
\* sim.dt = 1.0, in 1/1000 yr.
DtSet == 1000
\* dt of a fresh rebound.Simulation() (REBOUND's default, 0.001).
DtDefault == 1
\* sim.add(m=1.50), in 1/100000 Msun.
MassStar == 150000
\* mass_e = 5e-3 of cell a20bd72a.
MassE0 == 500
\* mass_b = 3e-3 of cell ea6ed7d6.
MassB0 == 300
\* sim.integrate(100000) and sim.integrate(1000000), in 1/1000 yr.
TLong == 100000000
TFinal == 1000000000
\* 4 pi^2 in 1/1000000 (Kepler's third law, P^2 = 4 pi^2 a^3 / (G M)).
FourPiSq == 39478417

Unbound == -1

UnitsAstro == "AU,yr,Msun"
UnitsNone == "none"

\* The time step the adaptive default integrator (IAS15) leaves in sim.dt
\* after an integration of more than one step: not computable here, one of
\* a few representative values.
AdaptiveDts == {500, 1000, 2000}

--------------------------------------------------------------------------
\* The notebooks' code cells, by cell id, in notebook order.

CellsA ==
  << "ae108e7f", "a20bd72a", "6b6cbae2", "2eb7fc48", "2a7b7034", "337451a2",
     "1d189774", "ea6ed7d6", "76ca7354", "40ea86cc", "fa08bc25", "6cb48360",
     "75724b6c", "44c27ba9" >>

\* Variant, not in the code: the other notebook with the plot-and-save cell
\* ahead of the cells that set dt and move to the centre of mass.
CellsBSavingEarly ==
  << "ae108e7f", "a20bd72a", "2a7b7034", "6b6cbae2", "2eb7fc48", "337451a2",
     "1d189774", "ea6ed7d6", "76ca7354", "40ea86cc", "6e7036c7", "fa08bc25",
     "6cb48360", "75724b6c", "44c27ba9" >>

CellsB ==
  << "ae108e7f", "a20bd72a", "6b6cbae2", "2eb7fc48", "2a7b7034", "337451a2",
     "1d189774", "ea6ed7d6", "76ca7354", "40ea86cc", "6e7036c7", "fa08bc25",
     "6cb48360", "75724b6c", "44c27ba9" >>

Cells(n) == IF n = "A" THEN CellsA ELSE CellsB

\* nframe of the two animation cells.
NFrame(n) == IF n = "A" THEN 220 ELSE 500

\* mass_e of the final cell 6cb48360 (5e-3 in A, 7.3e-3 in B).
MassE1(n) == IF n = "A" THEN 500 ELSE 730

--------------------------------------------------------------------------
\* REBOUND simulation objects, as far as the notebooks drive them.

\* rebound.Simulation()
NewSim ==
  [ t |-> 0, dt |-> DtDefault, G |-> GDefault, units |-> UnitsNone,
    particles |-> << >>, com |-> FALSE ]

\* sim.add(m=...) without orbital elements: a body at the origin.
Star(m, t) ==
  [ m |-> m, a |-> 0, e |-> 0, omega |-> 0, M |-> 0, inc |-> 0, Omega |-> 0,
    epoch |-> t ]

\* sim.add(m=..., a=..., e=..., omega=..., M=..., inc=inc_pl, Omega=Omega_pl)
Planet(m, a, e, omega, M, t) ==
  [ m |-> m, a |-> a, e |-> e, omega |-> omega, M |-> M, inc |-> 278,
    Omega |-> 601, epoch |-> t ]

RECURSIVE TotalMass(_)
TotalMass(ps) ==
  IF ps = << >> THEN 0 ELSE ps[1].m + TotalMass(Tail(ps))

\* sim.add appends the body; the centre of mass is no longer at the origin.
SimAdd(s, p) ==
  [ s EXCEPT !.particles = Append(@, p), !.com = FALSE ]

\* sim.move_to_com()
SimMoveToCom(s) == [ s EXCEPT !.com = TRUE ]

\* sim.integrate(tmax), exact_finish_time = 1: the time ends at tmax. If the
\* current dt already reaches tmax the only step is the shortened last one
\* and dt is put back; otherwise dt is what the adaptive integrator chose.
SimIntegrate(s, tmax, adt) ==
  [ s EXCEPT !.t = tmax,
             !.dt = IF s.t + s.dt >= tmax THEN s.dt ELSE adt ]

\* sim.save("start.bin"): the file holds a snapshot of the simulation.
SimSave(s) == << s >>

\* Variant, not in the code: a checkpoint that does not bring the time step back.
SimLoadWithoutDt(f) == [ f[1] EXCEPT !.dt = DtDefault ]

\* rebound.Simulation("start.bin"): a new object equal to the snapshot.
SimLoad(f) == f[1]

--------------------------------------------------------------------------
\* The kernel: a record k of the names and objects a cell reads and writes.
\*   sim     the object the name sim is bound to (0: the name is unbound)
\*   op      << >> (unbound) or << the OrbitPlot >>: the simulation it
\*           holds (op.sim) and the time of the state it last plotted
\*   heap    the simulation objects, by identity
\*   file    << >> (no start.bin) or << the snapshot in start.bin >>
\*   ns      dtor/inc_pl/Omega_pl bound?, mass_e .. mass_b, nframe, framestep
\*   out     "ok" or the exception that ended the cell
\*   saves   how often start.bin was written
\*   loaded  << >> or << what the last rebound.Simulation("start.bin") gave >>

Ok(k) == k.out = "ok"

Raise(k, e) == [ k EXCEPT !.out = e ]

Live(k) ==
  (IF k.sim # 0 THEN {k.sim} ELSE {})
    \cup (IF k.op # << >> THEN {k.op[1].sim} ELSE {})

\* Objects no name refers to any more are gone. Identities are names for
\* the objects and nothing more: the one sim is bound to is called 1, and
\* the one only the plot holds comes after it.
Collect(k) ==
  LET o  == IF k.op = << >> THEN 0 ELSE k.op[1].sim
      s1 == IF k.sim # 0 THEN 1 ELSE 0
      o1 == IF o = 0 THEN 0 ELSE IF o = k.sim THEN s1 ELSE s1 + 1
  IN  [ k EXCEPT
          !.heap = [ j \in { s1, o1 } \ { 0 } |->
                       IF j = s1 THEN k.heap[k.sim] ELSE k.heap[o] ],
          !.sim = s1,
          !.op = IF k.op = << >> THEN << >>
                 ELSE << [ k.op[1] EXCEPT !.sim = o1 ] >> ]

FreshId(k) ==
  CHOOSE i \in 1..(Cardinality(DOMAIN k.heap) + 1) :
    /\ i \notin DOMAIN k.heap
    /\ \A j \in 1..(i - 1) : j \in DOMAIN k.heap

\* sim = <a new simulation object s>
BindSim(k, s) ==
  LET id == FreshId(k)
      h  == [ i \in DOMAIN k.heap \cup {id} |->
                IF i = id THEN s ELSE k.heap[i] ]
  IN  Collect([ k EXCEPT !.heap = h, !.sim = id ])

\* sim = rebound.Simulation(); sim.units = ('AU','yr','Msun'); sim.G = ...
StCreate(k) ==
  IF ~Ok(k) THEN k
  ELSE BindSim(k, [ NewSim EXCEPT !.units = UnitsAstro, !.G = GAstro ])

\* sim = rebound.Simulation()
StRebuild(k) ==
  IF ~Ok(k) THEN k ELSE BindSim(k, NewSim)

\* del sim
StDelSim(k) ==
  IF ~Ok(k) THEN k
  ELSE IF k.sim = 0 THEN Raise(k, "NameError")
  ELSE Collect([ k EXCEPT !.sim = 0 ])

\* Variant, not in the code: a load that falls back to a new simulation when there is no file.
StLoadOrNew(k) ==
  IF ~Ok(k) THEN k
  ELSE IF k.file = << >> THEN BindSim(k, NewSim)
  ELSE [ BindSim(k, SimLoad(k.file)) EXCEPT !.loaded = << SimLoad(k.file) >> ]

\* sim = rebound.Simulation("start.bin")
StLoad(k) ==
  IF ~Ok(k) THEN k
  ELSE IF k.file = << >> THEN Raise(k, "RuntimeError")
  ELSE [ BindSim(k, SimLoad(k.file)) EXCEPT !.loaded = << SimLoad(k.file) >> ]

\* sim.add(m=1.50)
StAddStar(k) ==
  IF ~Ok(k) THEN k
  ELSE IF k.sim = 0 THEN Raise(k, "NameError")
  ELSE [ k EXCEPT !.heap[k.sim] = SimAdd(@, Star(MassStar, @.t)) ]

\* sim.add(m=<a mass_* name>, a=.., e=.., omega=..*dtor, M=.., inc=inc_pl,
\* Omega=Omega_pl): the names are read first; the library needs a primary
\* with mass to place an orbit around.
StAddPlanet(k, m, a, e, omega, M) ==
  IF ~Ok(k) THEN k
  ELSE IF k.sim = 0 \/ m = Unbound \/ ~k.ns.consts THEN Raise(k, "NameError")
  ELSE IF TotalMass(k.heap[k.sim].particles) = 0 THEN Raise(k, "ValueError")
  ELSE [ k EXCEPT !.heap[k.sim] = SimAdd(@, Planet(m, a, e, omega, M, @.t)) ]

\* dtor = np.pi / 180; inc_pl = 27.8 * dtor; Omega_pl = 60.1 * dtor
StConsts(k) ==
  IF ~Ok(k) THEN k ELSE [ k EXCEPT !.ns.consts = TRUE ]

\* mass_e = <literal>; mass_d = mass_e
StMassED(k, m) ==
  IF ~Ok(k) THEN k ELSE [ k EXCEPT !.ns.mass_e = m, !.ns.mass_d = m ]

\* Variant, not in the code: mass_b = mass_e: the outermost planet as heavy as the others.
StMassCBEqual(k) ==
  IF ~Ok(k) THEN k
  ELSE IF k.ns.mass_e = Unbound THEN Raise(k, "NameError")
  ELSE [ k EXCEPT !.ns.mass_c = k.ns.mass_e, !.ns.mass_b = k.ns.mass_e ]

\* mass_c = mass_e; mass_b = 3e-3
StMassCB(k) ==
  IF ~Ok(k) THEN k
  ELSE IF k.ns.mass_e = Unbound THEN Raise(k, "NameError")
  ELSE [ k EXCEPT !.ns.mass_c = k.ns.mass_e, !.ns.mass_b = MassB0 ]

\* mass_e = <literal>; mass_d = mass_e; mass_c = mass_e; mass_b = mass_e * 0.5
StMassAll(k, m) ==
  IF ~Ok(k) THEN k
  ELSE [ k EXCEPT !.ns.mass_e = m, !.ns.mass_d = m, !.ns.mass_c = m,
                  !.ns.mass_b = m \div 2 ]

\* for o in sim.calculate_orbits(): print(... o.omega/dtor ...): reads only.
\* Without a body the library call may fail (lib says whether it works);
\* dtor is read once there is an orbit to print.
StPrintOrbits(k, lib) ==
  IF ~Ok(k) THEN k
  ELSE IF k.sim = 0 THEN Raise(k, "NameError")
  ELSE IF Len(k.heap[k.sim].particles) = 0 /\ ~lib THEN Raise(k, "ValueError")
  ELSE IF Len(k.heap[k.sim].particles) >= 2 /\ ~k.ns.consts
       THEN Raise(k, "NameError")
  ELSE k

\* for o in sim.calculate_orbits(): print("%9.3f" % o.P): reads only.
StPrintPeriods(k, lib) ==
  IF ~Ok(k) THEN k
  ELSE IF k.sim = 0 THEN Raise(k, "NameError")
  ELSE IF Len(k.heap[k.sim].particles) = 0 /\ ~lib THEN Raise(k, "ValueError")
  ELSE k

\* Variant, not in the code: sim.dt = 10.0
StSetDtTenYears(k) ==
  IF ~Ok(k) THEN k
  ELSE IF k.sim = 0 THEN Raise(k, "NameError")
  ELSE [ k EXCEPT !.heap[k.sim].dt = 10 * DtSet ]

\* sim.dt = 1.0
StSetDt(k) ==
  IF ~Ok(k) THEN k
  ELSE IF k.sim = 0 THEN Raise(k, "NameError")
  ELSE [ k EXCEPT !.heap[k.sim].dt = DtSet ]

\* sim.move_to_com()
StMoveToCom(k) ==
  IF ~Ok(k) THEN k
  ELSE IF k.sim = 0 THEN Raise(k, "NameError")
  ELSE [ k EXCEPT !.heap[k.sim] = SimMoveToCom(@) ]

\* Variant, not in the code: a status report that puts the time step back to
\* the library's default.
StReadResetsDt(k) ==
  IF ~Ok(k) THEN k
  ELSE IF k.sim = 0 THEN Raise(k, "NameError")
  ELSE [ k EXCEPT !.heap[k.sim].dt = DtDefault ]

\* for p in sim.particles: print(p.x, p.y, p.z), and sim.status(...): read only.
StRead(k) ==
  IF ~Ok(k) THEN k
  ELSE IF k.sim = 0 THEN Raise(k, "NameError")
  ELSE k

\* Variant, not in the code: a plot that holds a copy of the simulation.
StOrbitPlotOfCopy(k, lib) ==
  IF ~Ok(k) THEN k
  ELSE IF k.sim = 0 THEN Raise(k, "NameError")
  ELSE IF Len(k.heap[k.sim].particles) < 2 /\ ~lib THEN Raise(k, "ValueError")
  ELSE LET k0 == Collect([ k EXCEPT !.op = << >> ])
           id == FreshId(k0)
           h  == [ j \in DOMAIN k0.heap \cup {id} |-> k0.heap[k0.sim] ]
       IN  Collect([ k0 EXCEPT !.heap = h,
                               !.op = << [ sim |-> id,
                                           shown |-> k0.heap[k0.sim].t ] >> ])

\* op = rebound.OrbitPlot(sim, ...): the plot holds the simulation itself
\* (not a copy) and shows its current state. Without a planet to draw the
\* library call may fail (lib says whether it works).
StOrbitPlot(k, lib) ==
  IF ~Ok(k) THEN k
  ELSE IF k.sim = 0 THEN Raise(k, "NameError")
  ELSE IF Len(k.heap[k.sim].particles) < 2 /\ ~lib THEN Raise(k, "ValueError")
  ELSE Collect([ k EXCEPT !.op = << [ sim |-> k.sim,
                                      shown |-> k.heap[k.sim].t ] >> ])

\* sim.save("start.bin")
StSave(k) ==
  IF ~Ok(k) THEN k
  ELSE IF k.sim = 0 THEN Raise(k, "NameError")
  ELSE [ k EXCEPT !.file = SimSave(k.heap[k.sim]), !.saves = @ + 1 ]

\* sim.integrate(tmax)
StIntegrate(k, tmax, adt) ==
  IF ~Ok(k) THEN k
  ELSE IF k.sim = 0 THEN Raise(k, "NameError")
  ELSE [ k EXCEPT !.heap[k.sim] = SimIntegrate(@, tmax, adt) ]

\* nframe = <literal>
StNFrame(k, n) ==
  IF ~Ok(k) THEN k ELSE [ k EXCEPT !.ns.nframe = n ]

\* Variant, not in the code: framestep = 1.0, whatever sim.dt is.
StFramestepOneYear(k) ==
  IF ~Ok(k) THEN k
  ELSE IF k.sim = 0 THEN Raise(k, "NameError")
  ELSE [ k EXCEPT !.ns.framestep = DtSet ]

\* framestep = sim.dt  (1*sim.dt in the second animation cell)
StFramestep(k) ==
  IF ~Ok(k) THEN k
  ELSE IF k.sim = 0 THEN Raise(k, "NameError")
  ELSE [ k EXCEPT !.ns.framestep = k.heap[k.sim].dt ]

\* fig = op.fig
StFig(k) ==
  IF ~Ok(k) THEN k
  ELSE IF k.op = << >> THEN Raise(k, "NameError")
  ELSE k

\* Variant, not in the code: op.sim.integrate(framestep): every run starts over from time 0.
StFrameIntegrateFromZero(k, adt) ==
  IF ~Ok(k) THEN k
  ELSE IF k.op = << >> \/ k.sim = 0 THEN Raise(k, "NameError")
  ELSE [ k EXCEPT !.heap[k.op[1].sim] =
           SimIntegrate(@, k.ns.framestep, adt) ]

\* op.sim.integrate(sim.t + framestep): advances the simulation the plot
\* holds, to a time read from the simulation the name sim is bound to.
StFrameIntegrate(k, adt) ==
  IF ~Ok(k) THEN k
  ELSE IF k.op = << >> \/ k.sim = 0 THEN Raise(k, "NameError")
  ELSE [ k EXCEPT !.heap[k.op[1].sim] =
           SimIntegrate(@, k.heap[k.sim].t + k.ns.framestep, adt) ]

\* display / clear_output / op.update() / fig.canvas.draw(): the plot is
\* refreshed from the simulation it holds.
StFrameUpdate(k) ==
  IF ~Ok(k) THEN k
  ELSE IF k.op = << >> THEN Raise(k, "NameError")
  ELSE [ k EXCEPT !.op[1].shown = k.heap[k.op[1].sim].t ]

\* One pass of the body of "for i in range(nframe)".
Frame(k, adt) == StFrameUpdate(StFrameIntegrate(k, adt))

\* The whole loop: n passes, ended early only by an exception. (n passes
\* are n \div 2 passes and then the rest: the evaluation stays shallow.)
RECURSIVE Frames(_, _, _)
Frames(k, n, adt) ==
  IF n <= 0 \/ ~Ok(k) THEN k
  ELSE IF n = 1 THEN Frame(k, adt)
  ELSE Frames(Frames(k, n \div 2, adt), n - (n \div 2), adt)

--------------------------------------------------------------------------
\* The code cells. Each starts with a clean output; a statement that raises
\* ends the cell there (the statements after it see ~Ok and do nothing).
\* n is the notebook, adt and lib the outcomes the library decides.

Begin(k) == [ k EXCEPT !.out = "ok" ]

\* ae108e7f: create the simulation, choose the units and G.
CellCreate(k) == StCreate(Begin(k))

\* a20bd72a: the star, the constants, mass_e and mass_d, planets e and d,
\* the orbital elements printed.
CellAddInner(k, lib) ==
  LET k1 == StMassED(StConsts(StAddStar(Begin(k))), MassE0)
      k2 == StAddPlanet(k1, k1.ns.mass_e, 1664, 1397, 1188, 1261)
      k3 == StAddPlanet(k2, k2.ns.mass_d, 2629, 1112, 243, 2032)
  IN  StPrintOrbits(k3, lib)

\* 6b6cbae2: the periods printed, then the time step set.
CellSetDt(k, lib) == StSetDt(StPrintPeriods(Begin(k), lib))

\* 2eb7fc48: to the centre-of-mass frame, the positions printed.
CellMoveToCom(k) == StRead(StMoveToCom(Begin(k)))

\* 2a7b7034: the plot of the starting point, then the checkpoint.
CellPlotSave(k, lib) == StSave(StOrbitPlot(Begin(k), lib))

\* 337451a2, and fa08bc25 (which in A first makes a new plot, and in A has
\* no "fig = op.fig"): what runs before the loop.
AnimPrologue(k, n, c, lib) ==
  LET k0 == IF c = "fa08bc25" /\ n = "A"
              THEN StOrbitPlot(Begin(k), lib) ELSE Begin(k)
      k1 == StFramestep(StNFrame(k0, NFrame(n)))
  IN  IF c = "fa08bc25" /\ n = "A" THEN k1 ELSE StFig(k1)

\* 1d189774: status, centre-of-mass frame, the orbital elements printed.
CellCheck(k, lib) == StPrintOrbits(StMoveToCom(StRead(Begin(k))), lib)

\* Variant, not in the code: ea6ed7d6 without its sim.move_to_com().
CellResetNoMoveToCom(k, lib) ==
  LET k1 == StMassCB(StLoad(StDelSim(Begin(k))))
      k2 == StAddPlanet(k1, k1.ns.mass_c, 4312, 561, 285, 4232)
      k3 == StAddPlanet(k2, k2.ns.mass_b, 7050, 113, 2136, 2642)
  IN  StPrintOrbits(StRead(k3), lib)

\* Variant, not in the code: ea6ed7d6 adding planet b before planet c.
CellResetOuterFirst(k, lib) ==
  LET k1 == StMassCB(StLoad(StDelSim(Begin(k))))
      k2 == StAddPlanet(k1, k1.ns.mass_b, 7050, 113, 2136, 2642)
      k3 == StAddPlanet(k2, k2.ns.mass_c, 4312, 561, 285, 4232)
  IN  StPrintOrbits(StRead(StMoveToCom(k3)), lib)

\* Variant, not in the code: ea6ed7d6 without del sim and the load, c and b
\* added to the simulation that is there.
CellResetWithoutLoad(k, lib) ==
  LET k1 == StMassCB(Begin(k))
      k2 == StAddPlanet(k1, k1.ns.mass_c, 4312, 561, 285, 4232)
      k3 == StAddPlanet(k2, k2.ns.mass_b, 7050, 113, 2136, 2642)
  IN  StPrintOrbits(StRead(StMoveToCom(k3)), lib)

\* ea6ed7d6: back to the checkpoint, planets c and b added.
CellReset(k, lib) ==
  LET k1 == StMassCB(StLoad(StDelSim(Begin(k))))
      k2 == StAddPlanet(k1, k1.ns.mass_c, 4312, 561, 285, 4232)
      k3 == StAddPlanet(k2, k2.ns.mass_b, 7050, 113, 2136, 2642)
  IN  StPrintOrbits(StRead(StMoveToCom(k3)), lib)

\* 76ca7354, 6e7036c7: a new plot of the current simulation.
CellPlot(k, lib) == StOrbitPlot(Begin(k), lib)

\* 40ea86cc: the long integration, the orbital elements printed.
CellLong(k, adt, lib) == StPrintOrbits(StIntegrate(Begin(k), TLong, adt), lib)

\* 6cb48360: a new simulation with the same orbits and the masses of this
\* cell. No units and no G are set on it.
CellReimagine(k, n) ==
  LET k1 == StMassAll(StAddStar(StRebuild(StDelSim(Begin(k)))), MassE1(n))
      k2 == StAddPlanet(k1, k1.ns.mass_e, 1664, 1397, 1188, 1261)
      k3 == StAddPlanet(k2, k2.ns.mass_d, 2629, 1112, 243, 2032)
      k4 == StAddPlanet(k3, k3.ns.mass_c, 4312, 561, 285, 4232)
      k5 == StAddPlanet(k4, k4.ns.mass_b, 7050, 113, 2136, 2642)
  IN  StMoveToCom(k5)

\* 75724b6c: the final integration, then the plot of the end point.
CellFinal(k, adt, lib) == StOrbitPlot(StIntegrate(Begin(k), TFinal, adt), lib)

\* 44c27ba9: sim.status(showAllFields=False)
CellStatus(k) == StRead(Begin(k))

AnimCells == { "337451a2", "fa08bc25" }

Cell(k, n, c, adt, lib) ==
  CASE c = "ae108e7f" -> CellCreate(k)
    [] c = "a20bd72a" -> CellAddInner(k, lib)
    [] c = "6b6cbae2" -> CellSetDt(k, lib)
    [] c = "2eb7fc48" -> CellMoveToCom(k)
    [] c = "2a7b7034" -> CellPlotSave(k, lib)
    [] c = "1d189774" -> CellCheck(k, lib)
    [] c = "ea6ed7d6" -> CellReset(k, lib)
    [] c \in { "76ca7354", "6e7036c7" } -> CellPlot(k, lib)
    [] c = "40ea86cc" -> CellLong(k, adt, lib)
    [] c = "6cb48360" -> CellReimagine(k, n)
    [] c = "75724b6c" -> CellFinal(k, adt, lib)
    [] c = "44c27ba9" -> CellStatus(k)

--------------------------------------------------------------------------
\* The session.

VARIABLES
  nb,        \* which notebook is open: "A" or "B"
  cursor,    \* the selected cell: the next one to run (Len + 1: none)
  sim, op, heap, file, ns, out, saves, loaded,   \* the kernel, as in k
  animRuns,  \* runs of 337451a2 in a row since 2a7b7034 saved (-1: none)
  jumps,     \* how often a cell other than the next was selected
  pc, i      \* inside an animation loop run pass by pass: where, and i

vars ==
  << nb, cursor, sim, op, heap, file, ns, out, saves, loaded, animRuns,
     jumps, pc, i >>

K ==
  [ sim |-> sim, op |-> op, heap |-> heap, file |-> file, ns |-> ns,
    out |-> out, saves |-> saves, loaded |-> loaded ]

SetK(r) ==
  /\ sim' = r.sim
  /\ op' = r.op
  /\ heap' = r.heap
  /\ file' = r.file
  /\ ns' = r.ns
  /\ out' = r.out
  /\ saves' = r.saves
  /\ loaded' = r.loaded

Init ==
  /\ nb \in { "A", "B" }
  /\ cursor = 1
  /\ sim = 0
  /\ op = << >>
  /\ heap = [ x \in {} |-> NewSim ]
  /\ file = << >>
  /\ ns = [ consts |-> FALSE, mass_e |-> Unbound, mass_d |-> Unbound,
            mass_c |-> Unbound, mass_b |-> Unbound, nframe |-> Unbound,
            framestep |-> Unbound ]
  /\ out = "ok"
  /\ saves = 0
  /\ loaded = << >>
  /\ animRuns = -1
  /\ jumps = 0
  /\ pc = "idle"
  /\ i = 0

\* The cell that ran last ("" before the first): running a cell selects
\* the one after it.
LastCell == IF cursor = 1 THEN "" ELSE Cells(nb)[cursor - 1]

\* Cell number c has ended with the kernel as in r: the next cell is
\* selected.
Finish(c, r) ==
  /\ SetK(r)
  /\ cursor' = c + 1
  /\ animRuns' = IF Cells(nb)[c] = "2a7b7034" /\ Ok(r) THEN 0
                 ELSE IF Cells(nb)[c] = "337451a2" /\ Ok(r) /\ animRuns >= 0
                   THEN animRuns + 1
                 ELSE -1

\* What the library may answer in a cell: the adaptive time step matters to
\* the two long integrations, and a call can only fail for want of a planet.
AdtChoices(c) ==
  IF c \in { "40ea86cc", "75724b6c" } THEN AdaptiveDts ELSE { DtSet }

LibChoices(k) ==
  IF k.sim # 0 /\ Len(k.heap[k.sim].particles) < 2 THEN BOOLEAN ELSE { TRUE }

\* Cell number c, one without an animation loop, runs to its end.
Run(c) ==
  /\ pc = "idle"
  /\ Cells(nb)[c] \notin AnimCells
  /\ \E adt \in AdtChoices(Cells(nb)[c]), lib \in LibChoices(K) :
       Finish(c, Cell(K, nb, Cells(nb)[c], adt, lib))
  /\ UNCHANGED << nb, pc, i >>

\* Cell number c, an animation cell, runs to its end. Every pass is a single
\* step of the integrator unless the plot holds another simulation than sim.
RunAnim(c) ==
  /\ pc = "idle"
  /\ Cells(nb)[c] \in AnimCells
  /\ \E lib \in LibChoices(K) :
       LET k1 == AnimPrologue(K, nb, Cells(nb)[c], lib)
       IN  \E adt \in IF Ok(k1) /\ k1.op[1].sim # k1.sim
                        THEN AdaptiveDts ELSE { DtSet } :
             Finish(c, IF Ok(k1) THEN Frames(k1, k1.ns.nframe, adt) ELSE k1)
  /\ UNCHANGED << nb, pc, i >>

\* Run the selected cell.
RunCell ==
  /\ cursor <= Len(Cells(nb))
  /\ Run(cursor)
  /\ UNCHANGED jumps

RunAnimCell ==
  /\ cursor <= Len(Cells(nb))
  /\ RunAnim(cursor)
  /\ UNCHANGED jumps

\* Select another cell than the next one and run it (to re-run a cell, or to
\* skip cells).
JumpCell ==
  /\ jumps < MaxJumps
  /\ jumps' = jumps + 1
  /\ \E c \in 1..Len(Cells(nb)) : c # cursor /\ Run(c)

JumpAnimCell ==
  /\ jumps < MaxJumps
  /\ jumps' = jumps + 1
  /\ \E c \in 1..Len(Cells(nb)) : c # cursor /\ RunAnim(c)

Next == RunCell \/ RunAnimCell \/ JumpCell \/ JumpAnimCell

Spec == Init /\ [][Next]_vars

--------------------------------------------------------------------------
\* The same session run from top to bottom, the animation loops pass by
\* pass.

\* An animation cell up to its loop.
AnimBegin ==
  /\ pc = "idle"
  /\ cursor <= Len(Cells(nb))
  /\ Cells(nb)[cursor] \in AnimCells
  /\ \E lib \in LibChoices(K) :
       LET r == AnimPrologue(K, nb, Cells(nb)[cursor], lib)
       IN  IF Ok(r)
             THEN /\ SetK(r)
                  /\ pc' = "test"
                  /\ UNCHANGED << cursor, animRuns >>
             ELSE /\ Finish(cursor, r)
                  /\ pc' = "idle"
  /\ i' = 0
  /\ UNCHANGED << nb, jumps >>

\* Variant, not in the code: a pass that refreshes the plot before it advances the simulation.
PassOrderUpdateFirst == << "update", "integrate" >>

\* The body of the loop: first the integration, then the plot.
PassOrder == << "integrate", "update" >>

\* Where a pass goes on after step p: to the second step, or to the next
\* pass.
After(p) == IF p = PassOrder[1] THEN PassOrder[2] ELSE "test"

\* for i in range(nframe): another pass.
FrameNext ==
  /\ pc = "test"
  /\ i < ns.nframe
  /\ pc' = PassOrder[1]
  /\ UNCHANGED << nb, cursor, sim, op, heap, file, ns, out, saves, loaded,
                  animRuns, jumps, i >>

\* op.sim.integrate(sim.t + framestep)
FrameIntegrate ==
  /\ pc = "integrate"
  /\ \E adt \in AdaptiveDts :
       LET r == StFrameIntegrate(K, adt)
       IN  IF Ok(r)
             THEN /\ SetK(r)
                  /\ pc' = After("integrate")
                  /\ i' = IF After("integrate") = "test" THEN i + 1 ELSE i
                  /\ UNCHANGED << cursor, animRuns >>
             ELSE /\ Finish(cursor, r)
                  /\ pc' = "idle"
                  /\ i' = i
  /\ UNCHANGED << nb, jumps >>

\* display, clear_output, op.update(), fig.canvas.draw()
FrameUpdate ==
  /\ pc = "update"
  /\ LET r == StFrameUpdate(K)
     IN  IF Ok(r)
           THEN /\ SetK(r)
                /\ pc' = After("update")
                /\ i' = IF After("update") = "test" THEN i + 1 ELSE i
                /\ UNCHANGED << cursor, animRuns >>
           ELSE /\ Finish(cursor, r)
                /\ pc' = "idle"
                /\ i' = i
  /\ UNCHANGED << nb, jumps >>

\* for i in range(nframe): no more passes, the cell is over.
AnimEnd ==
  /\ pc = "test"
  /\ i >= ns.nframe
  /\ Finish(cursor, K)
  /\ pc' = "idle"
  /\ UNCHANGED << nb, jumps, i >>

NextFrames ==
  RunCell \/ AnimBegin \/ FrameNext \/ FrameIntegrate \/ FrameUpdate
    \/ AnimEnd

SpecFrames == Init /\ [][NextFrames]_vars

--------------------------------------------------------------------------
\* Orbital periods as sim.calculate_orbits() reports them for bodies just
\* set up (Jacobi coordinates: a planet orbits the bodies added before it),
\* by Kepler's third law, P^2 = 4 pi^2 a^3 / (G M), rounded down.

\* a^3 in 1/100 au^3.
CubeAu(a) == (((a * a) \div 1000) * a) \div 10

\* 4 pi^2 / G in 1/1000.
KeplerK(G) == FourPiSq \div ((G + 999) \div 1000)

\* P^2 of particle number idx (2: the first planet), in units of time squared.
PeriodSq(s, idx) ==
  LET m == (TotalMass(SubSeq(s.particles, 1, idx)) + 999) \div 1000
      x == CubeAu(s.particles[idx].a) \div m
      c == KeplerK(s.G)
  IN  (x \div 1000) * c + ((x % 1000) * c) \div 1000

\* dt is at most 10% of every planet's period: (10 dt)^2 <= P^2.
WithinTenthOfPeriods(s) ==
  \A idx \in 2..Len(s.particles) :
    (s.dt * s.dt + 9999) \div 10000 <= PeriodSq(s, idx)

--------------------------------------------------------------------------
\* The claims.

\* The cell about to run ("" after the last).
NextCell == IF cursor <= Len(Cells(nb)) THEN Cells(nb)[cursor] ELSE ""

\* The starting point of cells ae108e7f .. 2eb7fc48: star, e and d at t = 0
\* in the centre-of-mass frame, dt = 1.0, G = 39.476926408897626.
StartingPoint ==
  [ t |-> 0, dt |-> 1000, G |-> 39476926, units |-> "AU,yr,Msun",
    particles |-> << Star(150000, 0),
                     Planet(500, 1664, 1397, 1188, 1261, 0),
                     Planet(500, 2629, 1112, 243, 2032, 0) >>,
    com |-> TRUE ]

(* C1: the animation cell 337451a2 carries the simulation on: after it has
   run k times in a row from the saved starting point (t = 0), sim.t is
   k * nframe * framestep, every run having begun at the sim.t the one
   before ended with, so the second run ends later than the first. *)
C1_AnimationCarriesOn ==
  (animRuns >= 0 /\ file = << StartingPoint >>) =>
    /\ sim # 0
    /\ heap[sim].t = animRuns * ns.nframe * ns.framestep
    /\ animRuns >= 1 =>
         /\ ns.nframe = NFrame(nb) /\ ns.framestep = DtSet
         /\ heap[sim].t > 0
    /\ animRuns >= 2 => heap[sim].t > ns.nframe * ns.framestep

C1_Witness ==
  /\ animRuns = 2
  /\ nb = "A"
  /\ file = << StartingPoint >>
  /\ heap[sim].t = 2 * 220 * 1000

(* C2: start.bin is written once in a top-to-bottom run, with the starting
   point (t = 0, star/e/d, dt = 1.0, the astronomical G, centre-of-mass
   frame, no integration yet), and rebound.Simulation("start.bin") gives
   that simulation back however far the animation has integrated since. *)
C2_CheckpointRoundTrip ==
  /\ jumps = 0 =>
       /\ saves = (IF LastCell \in { "", "ae108e7f", "a20bd72a", "6b6cbae2",
                                     "2eb7fc48" } THEN 0 ELSE 1)
       /\ saves = 1 => file = << StartingPoint >>
       /\ saves = 0 => file = << >>
  /\ (saves = 1 /\ file = << StartingPoint >> /\ loaded # << >>) =>
       loaded = << StartingPoint >>
  /\ (saves = 1 /\ file = << StartingPoint >> /\ LastCell = "ea6ed7d6"
        /\ out = "ok") =>
       /\ heap[sim].t = 0
       /\ heap[sim].dt = 1000
       /\ heap[sim].G = 39476926
       /\ heap[sim].units = "AU,yr,Msun"
       /\ SubSeq(heap[sim].particles, 1, 3) = StartingPoint.particles

C2_Witness ==
  /\ LastCell = "ea6ed7d6"
  /\ out = "ok"
  /\ jumps = 1
  /\ saves = 1
  /\ loaded = << StartingPoint >>
  /\ op # << >> /\ op[1].sim # sim /\ heap[op[1].sim].t = 2 * 500 * 1000

(* C3: at every call of integrate (the passes of both animation loops,
   integrate(100000), integrate(1000000)) the simulation integrated has
   G = 39.476926408897626 and the units (AU, yr, Msun). *)
C3_AstroUnitsAtIntegrate ==
  /\ pc = "integrate" =>
       /\ heap[op[1].sim].G = 39476926
       /\ heap[op[1].sim].units = "AU,yr,Msun"
  /\ (pc = "idle" /\ NextCell \in { "40ea86cc", "75724b6c" }) =>
       /\ sim # 0
       /\ heap[sim].G = 39476926
       /\ heap[sim].units = "AU,yr,Msun"

(* C4: every call of integrate, and sim.save, finds the simulation in the
   centre-of-mass frame: move_to_com has run on it and no body was added
   since. *)
C4_CentreOfMassAtIntegrate ==
  /\ pc = "integrate" => heap[op[1].sim].com
  /\ (pc = "idle" /\ NextCell \in { "2a7b7034", "40ea86cc", "75724b6c" }) =>
       sim # 0 /\ heap[sim].com
  /\ (pc = "idle" /\ NextCell \in AnimCells) =>
       sim # 0 /\ heap[sim].com /\ (op # << >> => heap[op[1].sim].com)

C4_Witness ==
  /\ pc = "integrate"
  /\ NextCell = "fa08bc25"
  /\ Len(heap[op[1].sim].particles) = 5
  /\ heap[op[1].sim].com

\* What the plot object holds: its simulation and the time it shows.
PlotView ==
  IF op = << >> THEN << >> ELSE << heap[op[1].sim], op[1].shown >>

(* C5: the reset cell ea6ed7d6 run without a start.bin: del sim unbinds
   sim, the load raises, the cell ends there (nothing else of the cell
   runs, nothing recovers), and sim stays unbound. *)
C5_MissingCheckpointUnhandled ==
  [][ (pc = "idle" /\ sim # 0 /\ file = << >>
         /\ cursor' <= Len(Cells(nb)) + 1 /\ cursor' >= 2
         /\ Cells(nb)[cursor' - 1] = "ea6ed7d6")
      => /\ out' = "RuntimeError"
         /\ sim' = 0
         /\ PlotView' = PlotView
         /\ ns' = ns
         /\ file' = << >>
         /\ loaded' = loaded ]_vars

C5_Witness ==
  /\ LastCell = "ea6ed7d6"
  /\ file = << >>
  /\ out = "RuntimeError"
  /\ sim = 0
  /\ heap = << >>

\* The star first, then planets at 16.64, 26.29, 43.12, 70.50 au.
StarThenPlanetsOutward(ps) ==
  /\ Len(ps) <= 5
  /\ Len(ps) >= 1 => (ps[1].m = 150000 /\ ps[1].a = 0)
  /\ \A j \in 2..Len(ps) : ps[j].a = << 1664, 2629, 4312, 7050 >>[j - 1]
  /\ \A j \in 2..(Len(ps) - 1) : ps[j].a < ps[j + 1].a

(* C6: in a top-to-bottom run every simulation has the star of mass 1.50
   first and then the planets from the inside out (e, d, c, b), whether it
   has two planets, is the restored one with four, or the rebuilt one. *)
C6_StarFirstPlanetsOutward ==
  \A id \in DOMAIN heap : StarThenPlanetsOutward(heap[id].particles)

C6_Witness ==
  /\ LastCell = "6cb48360"
  /\ Len(heap[sim].particles) = 5
  /\ op # << >> /\ op[1].sim # sim /\ Len(heap[op[1].sim].particles) = 5

\* The time at which the animation loop in progress began.
LoopStart == IF NextCell = "337451a2" THEN 0 ELSE TLong

(* C7: an animation loop ends after exactly nframe passes (220 in A, 500 in
   B), never earlier, and in every pass the simulation is advanced before
   the plot is refreshed: the plot then shows the state after that pass's
   advance. *)
C7_LoopRunsNFramePasses ==
  /\ (pc = "idle" /\ LastCell \in AnimCells) =>
       /\ out = "ok"
       /\ i = (IF nb = "A" THEN 220 ELSE 500)
       /\ op[1].shown = heap[op[1].sim].t
  /\ pc # "idle" =>
       /\ i <= ns.nframe
       /\ op[1].sim = sim
       /\ op[1].shown = LoopStart + i * ns.framestep
  /\ pc \in { "test", "integrate" } =>
       heap[sim].t = LoopStart + i * ns.framestep
  /\ pc = "update" =>
       heap[sim].t = LoopStart + (i + 1) * ns.framestep

C7_Witness ==
  /\ pc = "idle"
  /\ LastCell = "fa08bc25"
  /\ nb = "B"
  /\ i = 500
  /\ op[1].shown = heap[sim].t

(* C9: the time step 1.0 yr set on the simulation is at most 10% of the
   shortest orbital period of its planets, for the two-planet system it is
   set on and for the four-planet system restored from the checkpoint. *)
C9_DtWithinTenthOfPeriod ==
  (pc = "idle" /\ LastCell \in { "6b6cbae2", "2eb7fc48", "2a7b7034",
                                 "ea6ed7d6", "76ca7354" }) =>
    /\ heap[sim].dt = 1000
    /\ heap[sim].G = 39476926
    /\ Len(heap[sim].particles) >= 3
    /\ WithinTenthOfPeriods(heap[sim])
    /\ \A idx \in 3..Len(heap[sim].particles) :
         PeriodSq(heap[sim], 2) < PeriodSq(heap[sim], idx)

C9_Witness ==
  /\ LastCell = "ea6ed7d6"
  /\ Len(heap[sim].particles) = 5
  /\ heap[sim].dt = 1000
  /\ PeriodSq(heap[sim], 2) > 3000 /\ PeriodSq(heap[sim], 2) < 3100

\* A simulation with the star and four planets has just been set up.
FourPlanetsSetUp ==
  /\ LastCell \in { "ea6ed7d6", "6cb48360" }
  /\ out = "ok"
  /\ Len(heap[sim].particles) = 5

(* C10 as stated: whenever a four-planet simulation has been set up, in
   whatever order the cells ran, e, d and c have the same mass and b a
   strictly smaller one. *)
C10_SameInnerMassesAnyOrder ==
  FourPlanetsSetUp =>
    /\ heap[sim].particles[2].m = heap[sim].particles[3].m
    /\ heap[sim].particles[3].m = heap[sim].particles[4].m
    /\ heap[sim].particles[5].m < heap[sim].particles[4].m

(* C10 as amended: whenever a four-planet simulation has been set up, e and
   d have the same mass and b a strictly smaller one than e, d and c; c has
   the mass of e and d if mass_e still has the value e was added with,
   which is so in every top-to-bottom run and in any order in notebook A. *)
C10_SameInnerMasses ==
  FourPlanetsSetUp =>
    /\ heap[sim].particles[2].m = heap[sim].particles[3].m
    /\ heap[sim].particles[5].m < heap[sim].particles[2].m
    /\ heap[sim].particles[5].m < heap[sim].particles[4].m
    /\ (ns.mass_e = heap[sim].particles[2].m \/ jumps = 0 \/ nb = "A") =>
         heap[sim].particles[4].m = heap[sim].particles[2].m

C10_Witness ==
  /\ FourPlanetsSetUp
  /\ LastCell = "ea6ed7d6"
  /\ heap[sim].particles[2].m = 500
  /\ heap[sim].particles[4].m = 730
  /\ heap[sim].particles[5].m = 300

\* The simulation time the schedule of a top-to-bottom run gives after the
\* cell that ran last.
ScheduledTime ==
  CASE LastCell \in { "2a7b7034", "ea6ed7d6", "76ca7354", "6cb48360" } -> 0
    [] LastCell \in { "337451a2", "1d189774" } -> ns.nframe * ns.framestep
    [] LastCell \in { "40ea86cc", "6e7036c7" } -> 100000000
    [] LastCell = "fa08bc25" -> 100000000 + ns.nframe * ns.framestep
    [] LastCell \in { "75724b6c", "44c27ba9" } -> 1000000000
    [] OTHER -> 0

(* C11: in a top-to-bottom run sim.t is 0 at the save, nframe * framestep
   after the first animation loop, 0 after the reset cell, 100000 after
   sim.integrate(100000), 100000 + nframe * framestep after the second loop,
   0 after the rebuild and 1000000 after sim.integrate(1000000); and no step
   other than the two resets makes sim.t smaller. *)
C11_TimeSchedule ==
  /\ [](pc = "idle" /\ sim # 0 =>
          /\ out = "ok"
          /\ heap[sim].t = ScheduledTime
          /\ LastCell \in AnimCells => ns.nframe = NFrame(nb))
  /\ [][ (sim # 0 /\ sim' # 0
            /\ ~(cursor' # cursor
                   /\ Cells(nb)[cursor] \in { "ea6ed7d6", "6cb48360" }))
         => heap'[sim'].t >= heap[sim].t ]_vars

C11_Witness ==
  /\ nb = "B"
  /\ LastCell = "fa08bc25"
  /\ pc = "idle"
  /\ heap[sim].t = 100000000 + 500 * ns.framestep
  /\ ns.framestep > 0

(* C12 as stated: in both animation loops of a top-to-bottom run a frame
   advances the simulation by 1 yr: sim.dt is 1.0 when either loop reads
   framestep from it, and framestep is 1.0 all through the loop. *)
C12_OneYearPerFrame ==
  /\ (pc = "idle" /\ NextCell \in AnimCells) => heap[sim].dt = 1000
  /\ pc # "idle" => ns.framestep = 1000

(* C12 as amended: framestep is read from sim.dt once, where the loop
   begins, and stays as it is to the end of the loop. It is 1.0 in the first
   loop, and the restore brings sim.dt = 1.0 back; but the second loop reads
   the time step sim.integrate(100000) has left in sim.dt, the last full
   step the adaptive integrator chose, which need not be 1.0. *)
C12_FramestepReadOnce ==
  /\ []((pc # "idle" /\ NextCell = "337451a2") => ns.framestep = 1000)
  /\ []((pc = "idle" /\ LastCell \in { "ea6ed7d6", "76ca7354" }) =>
          heap[sim].dt = 1000)
  /\ []((pc # "idle" /\ NextCell = "fa08bc25") =>
          ns.framestep \in { 500, 1000, 2000 })
  /\ [][ /\ (pc = "idle" /\ pc' # "idle") => ns'.framestep = heap[sim].dt
         /\ (pc # "idle" /\ pc' # "idle") => ns'.framestep = ns.framestep
         /\ (pc = "integrate" /\ pc' # "idle") =>
              heap'[sim'].t = heap[sim].t + ns.framestep ]_vars

C12_Witness ==
  /\ pc = "update"
  /\ NextCell = "fa08bc25"
  /\ i = 3
  /\ ns.framestep = 2000
  /\ heap[sim].t = 100000000 + 4 * 2000

\* Kernel r differs from the kernel now in nothing but the exception a
\* statement may have raised.
SameButOutcome(r) == [ r EXCEPT !.out = "ok" ] = Begin(K)

\* Cell c is the one a step has just run.
JustRan(c) ==
  /\ pc = "idle" /\ pc' = "idle"
  /\ cursor' >= 2
  /\ Cells(nb)[cursor' - 1] = c

(* C13: the printing and status steps read only: wherever the session is,
   calculate_orbits with its print loop, the loop printing positions and
   sim.status leave time, bodies, masses, dt and G (and everything else) as
   they are; the status cell changes nothing, and the cells that print
   around a move_to_com change nothing but the frame. *)
C13_PrintAndStatusReadOnly ==
  /\ [](\A lib \in BOOLEAN :
          /\ SameButOutcome(StPrintOrbits(Begin(K), lib))
          /\ SameButOutcome(StPrintPeriods(Begin(K), lib))
          /\ SameButOutcome(StRead(Begin(K))))
  /\ [][ /\ JustRan("44c27ba9") =>
              /\ sim' = sim /\ heap' = heap /\ op' = op
              /\ file' = file /\ ns' = ns
         /\ (JustRan("1d189774") \/ JustRan("2eb7fc48")) =>
              /\ sim' = sim /\ op' = op /\ file' = file /\ ns' = ns
              /\ sim # 0 =>
                   /\ DOMAIN heap' = DOMAIN heap
                   /\ \A id \in DOMAIN heap :
                        heap'[id] = IF id = sim
                                      THEN [ heap[id] EXCEPT !.com = TRUE ]
                                      ELSE heap[id]
       ]_vars

C13_Witness ==
  /\ LastCell = "1d189774"
  /\ out = "ok"
  /\ nb = "A"
  /\ Len(heap[sim].particles) = 3
  /\ heap[sim].t = 220 * 1000
  /\ heap[sim].dt = 1000
  /\ heap[sim].com

(* C14: in a top-to-bottom run every pass of either animation loop advances
   the very simulation whose time it reads: op.sim is sim there, op having
   been made anew from sim after the reset and before the loop, so the pass
   advances sim.t by exactly framestep. After a reset cell, until OrbitPlot
   runs again, op.sim is still the simulation of before. *)
C14_PlotHoldsSimInLoops ==
  /\ [](pc # "idle" => (op # << >> /\ sim # 0 /\ op[1].sim = sim))
  /\ []((pc = "idle" /\ LastCell \in { "ea6ed7d6", "6cb48360" }) =>
          /\ op # << >> /\ op[1].sim # sim
          /\ heap[op[1].sim].t =
               (IF LastCell = "ea6ed7d6" THEN 0 ELSE 100000000)
                 + ns.nframe * ns.framestep
          /\ heap[sim].t = 0)
  /\ []((pc = "idle" /\ LastCell \in { "2a7b7034", "76ca7354", "6e7036c7",
                                       "75724b6c" }) =>
          (op # << >> /\ op[1].sim = sim))
  /\ [][ (pc = "integrate" /\ pc' # "idle") =>
           /\ sim' = sim
           /\ DOMAIN heap' = { sim }
           /\ heap'[sim].t = heap[sim].t + ns.framestep
           /\ heap'[sim].particles = heap[sim].particles
       ]_vars

C14_Witness ==
  /\ pc = "update"
  /\ NextCell = "fa08bc25"
  /\ nb = "A"
  /\ i = 7
  /\ op[1].sim = sim
  /\ Len(heap[sim].particles) = 5
  /\ heap[sim].t = 100000000 + 8 * ns.framestep

--------------------------------------------------------------------------
\* The two notebooks side by side.

\* The kernel before the first cell.
FreshKernel ==
  [ sim |-> 0, op |-> << >>, heap |-> [ x \in {} |-> NewSim ],
    file |-> << >>,
    ns |-> [ consts |-> FALSE, mass_e |-> Unbound, mass_d |-> Unbound,
             mass_c |-> Unbound, mass_b |-> Unbound, nframe |-> Unbound,
             framestep |-> Unbound ],
    out |-> "ok", saves |-> 0, loaded |-> << >> ]

\* The kernel after the first j cells of notebook n, run from top to bottom,
\* adt being the time step the two long integrations leave. (The kernel is
\* drawn from a one-element set so that each cell is applied to a kernel
\* already worked out.)
RECURSIVE RunTo(_, _, _)
RunTo(n, j, adt) ==
  IF j = 0 THEN FreshKernel
  ELSE LET c == Cells(n)[j]
           Loop(k1) == IF Ok(k1) THEN Frames(k1, k1.ns.nframe, adt) ELSE k1
           Through(k) ==
             IF c \in AnimCells
               THEN CHOOSE r \in { Loop(k1) :
                                   k1 \in { AnimPrologue(k, n, c, TRUE) } } :
                      TRUE
               ELSE Cell(k, n, c, adt, TRUE)
       IN  CHOOSE r \in { Through(k) : k \in { RunTo(n, j - 1, adt) } } : TRUE

\* The notebook that is not open.
Other == IF nb = "A" THEN "B" ELSE "A"

\* The cell of the other notebook to compare the last cell with: the same
\* one, but for the plot cell only one notebook has.
Counterpart == IF LastCell = "6e7036c7" THEN "40ea86cc" ELSE LastCell

\* The other notebook run top to bottom through that cell, the library
\* giving it the time step it gave this one.
OtherRun ==
  RunTo(Other,
        CHOOSE j \in 1..Len(Cells(Other)) : Cells(Other)[j] = Counterpart,
        IF sim # 0 THEN heap[sim].dt ELSE 1000)

\* The simulation state the claim compares: time, bodies, dt, G.
SimState(k) ==
  IF k.sim = 0 THEN << >>
  ELSE << k.heap[k.sim].t, k.heap[k.sim].particles, k.heap[k.sim].dt,
          k.heap[k.sim].G >>

\* The bodies without their masses.
Elements(k) ==
  [ j \in DOMAIN k.heap[k.sim].particles |->
      [ k.heap[k.sim].particles[j] EXCEPT !.m = 0 ] ]

Masses(k) ==
  [ j \in DOMAIN k.heap[k.sim].particles |-> k.heap[k.sim].particles[j].m ]

(* C15: run top to bottom side by side, the two notebooks have the same
   simulation state (t, bodies, dt, G) after every cell up to the save,
   after the reset cell and after integrate(100000), the one cell only one
   of them has changing no simulation state. They differ in nframe, so in t
   after either animation loop (220 against 500 frames), and in the masses
   of the rebuilt system (mass_e = 5e-3 against 7.3e-3), and in nothing
   else of the state. *)
C15_NotebooksAgree ==
  (pc = "idle" /\ cursor > 1) =>
    /\ out = "ok" /\ OtherRun.out = "ok"
    /\ sim # 0 /\ OtherRun.sim # 0
    /\ LastCell \in { "ae108e7f", "a20bd72a", "6b6cbae2", "2eb7fc48",
                      "2a7b7034", "ea6ed7d6", "76ca7354", "40ea86cc",
                      "6e7036c7" } =>
         SimState(K) = SimState(OtherRun)
    /\ LastCell \in { "337451a2", "1d189774", "fa08bc25" } =>
         /\ heap[sim].particles = OtherRun.heap[OtherRun.sim].particles
         /\ heap[sim].dt = OtherRun.heap[OtherRun.sim].dt
         /\ heap[sim].G = OtherRun.heap[OtherRun.sim].G
         /\ ns.framestep = OtherRun.ns.framestep
         /\ ns.nframe = (IF nb = "A" THEN 220 ELSE 500)
         /\ OtherRun.ns.nframe = (IF nb = "A" THEN 500 ELSE 220)
         /\ heap[sim].t - ns.nframe * ns.framestep =
              OtherRun.heap[OtherRun.sim].t
                - OtherRun.ns.nframe * ns.framestep
         /\ heap[sim].t # OtherRun.heap[OtherRun.sim].t
    /\ LastCell \in { "6cb48360", "75724b6c", "44c27ba9" } =>
         /\ heap[sim].t = OtherRun.heap[OtherRun.sim].t
         /\ heap[sim].G = OtherRun.heap[OtherRun.sim].G
         /\ Elements(K) = Elements(OtherRun)
         /\ Masses(K) = (IF nb = "A" THEN << 150000, 500, 500, 500, 250 >>
                         ELSE << 150000, 730, 730, 730, 365 >>)
         /\ Masses(OtherRun) =
              (IF nb = "A" THEN << 150000, 730, 730, 730, 365 >>
               ELSE << 150000, 500, 500, 500, 250 >>)

C15_Witness ==
  /\ pc = "idle"
  /\ nb = "A"
  /\ LastCell = "40ea86cc"
  /\ heap[sim].t = 100000000
  /\ heap[sim].dt = 2000
  /\ Len(heap[sim].particles) = 5
  /\ SimState(OtherRun) = SimState(K)
  /\ OtherRun.ns.nframe = 500

==========================================================================
